---------------------------- MODULE Spec2Model ----------------------------
(***************************************************************************)
(* Model version resolution and registry consistency of the Iris API.      *)
(*                                                                         *)
(* Persistent state: the registry document model_registry.json, the        *)
(* artifact files iris_<version>.pkl under src/api/models, and the process *)
(* environment variable MODEL_VERSION.                                     *)
(*                                                                         *)
(* Spec     : every HTTP handler of src/api/router.py runs to completion   *)
(*            as one step (the handlers are "async def" without an await,  *)
(*            so one event loop never interleaves two of them), together   *)
(*            with the training script and the removal of artifact files.  *)
(* SpecConc : two worker processes sharing the working directory; a        *)
(*            handler is split at its accesses to model_registry.json.     *)
(***************************************************************************)
EXTENDS Integers, Sequences, FiniteSets, TLC

VARIABLES
    env,        \* MODEL_VERSION: <<>> when unset, <<s>> when set to s
    artifacts,  \* versions v for which src/api/models/iris_<v>.pkl exists
    file,       \* model_registry.json
    resp,       \* response of the last request handled
    before,     \* model_registry.json as it was when the last request began
    writer,     \* SpecConc: the worker running switch_model
    reader,     \* SpecConc: the worker running a read-only handler
    committed,  \* SpecConc: the last complete document written to the file
    snaps,      \* SpecConc: complete documents persisted during the reader's request
    switched    \* history: <<t>> while the last write to the registry is a successful
                \* switch to t whose artifact is still stored, <<>> otherwise

vars == <<env, artifacts, file, resp, before, writer, reader, committed, snaps, switched>>

---------------------------------------------------------------------------
(* Bounds and value domains                                                *)

\* model.predict is opaque: it returns a class index in 0..MaxClassIdx;
\* the top index lies outside SPECIES.
MaxClassIdx == 3

ClassIdx == 0..MaxClassIdx

\* Values MODEL_VERSION is started with: unset, empty, a served version,
\* and a version nobody trains.
EnvValues == {<<>>, <<"">>, <<"v1">>, <<"v2">>, <<"v3">>}

\* Artifact files that may lie in the models directory.
ArtifactKeys == {"v1", "v2", "v3"}

\* Targets a client may post to /switch-model.
Targets == {"v1", "v2", "v3", ""}

\* round(accuracy, 3) of a training run, as json prints it.
TrainAccuracies == {"0.333", "0.967"}

---------------------------------------------------------------------------
(* Python dicts: functions from a set of keys                              *)

EmptyDict == [k \in {} |-> ""]

\* d.get(k, default)
Get(d, k, default) == IF k \in DOMAIN d THEN d[k] ELSE default

\* d[k] = v
Put(d, k, v) == [x \in DOMAIN d \cup {k} |-> IF x = k THEN v ELSE d[x]]

\* "if s:" on an optional string (None and "" are falsy)
Truthy(e) == Len(e) = 1 /\ e[1] # ""

\* f"iris_{version}.pkl"
PklName(v) == "iris_" \o v \o ".pkl"

\* f"{version}.0.0"
SemVer(v) == v \o ".0.0"

---------------------------------------------------------------------------
(* The registry file                                                       *)

AbsentFile == [kind |-> "absent", doc |-> EmptyDict]

\* what open(..., "w") leaves until the document is flushed: a present,
\* zero-length file, which json.load rejects
MalformedFile == [kind |-> "malformed", doc |-> EmptyDict]

JsonFile(d) == [kind |-> "json", doc |-> d]

SPECIES == (0 :> "setosa") @@ (1 :> "versicolor") @@ (2 :> "virginica")


\* a lookup keyed from 1 instead of 0
SpeciesGetOneBased(idx) ==
    IF idx - 1 \in DOMAIN SPECIES THEN SPECIES[idx - 1] ELSE ToString(idx)

\* SPECIES.get(pred_idx, pred_idx); an index returned verbatim is shown as
\* its decimal numeral
SpeciesGet(idx) == IF idx \in DOMAIN SPECIES THEN SPECIES[idx] ELSE ToString(idx)

\* load_registry(): FileNotFoundError gives {}, any other error propagates
LoadRegistry(f) ==
    CASE f.kind = "absent"    -> [ok |-> TRUE, doc |-> EmptyDict]
      [] f.kind = "json"      -> [ok |-> TRUE, doc |-> f.doc]
      [] f.kind = "malformed" -> [ok |-> FALSE, doc |-> EmptyDict]


\* the registry consulted before the environment
GetActiveModelVersionRegistryFirst(e, f) ==
    CASE f.kind = "json" /\ "version" \in DOMAIN f.doc -> [ok |-> TRUE, version |-> f.doc["version"]]
      [] f.kind = "malformed" -> [ok |-> FALSE, version |-> ""]
      [] OTHER -> [ok |-> TRUE, version |-> IF Truthy(e) THEN e[1] ELSE "v1"]

\* get_active_model_version()
GetActiveModelVersion(e, f) ==
    IF Truthy(e) THEN [ok |-> TRUE, version |-> e[1]]
    ELSE CASE f.kind = "absent"    -> [ok |-> TRUE, version |-> "v1"]
           [] f.kind = "json"      -> [ok |-> TRUE, version |-> Get(f.doc, "version", "v1")]
           [] f.kind = "malformed" -> [ok |-> FALSE, version |-> ""]

\* Path.exists() / joblib.load finding the file
ArtifactExists(arts, v) == v \in arts



\* a loader without the v1 fallback
LoadActiveModelNoFallback(e, f, arts) ==
    LET r == GetActiveModelVersion(e, f) IN
    IF ~r.ok THEN [status |-> 500, artifact |-> "", version |-> ""]
    ELSE IF ArtifactExists(arts, r.version)
         THEN [status |-> 200, artifact |-> r.version, version |-> r.version]
    ELSE [status |-> 404, artifact |-> "", version |-> r.version]

\* a loader that falls back to v1 but reports the version it was asked for
LoadActiveModelReportsRequested(e, f, arts) ==
    LET r == GetActiveModelVersion(e, f) IN
    IF ~r.ok THEN [status |-> 500, artifact |-> "", version |-> ""]
    ELSE IF ArtifactExists(arts, r.version)
         THEN [status |-> 200, artifact |-> r.version, version |-> r.version]
    ELSE IF r.version # "v1" /\ ArtifactExists(arts, "v1")
         THEN [status |-> 200, artifact |-> "v1", version |-> r.version]
    ELSE [status |-> 404, artifact |-> "", version |-> r.version]

\* load_active_model(): the artifact file loaded and the version reported,
\* 404 naming the resolved version, or 500 when the registry cannot be parsed
LoadActiveModel(e, f, arts) ==
    LET r == GetActiveModelVersion(e, f) IN
    IF ~r.ok THEN [status |-> 500, artifact |-> "", version |-> ""]
    ELSE IF ArtifactExists(arts, r.version)
         THEN [status |-> 200, artifact |-> r.version, version |-> r.version]
    ELSE IF r.version # "v1" /\ ArtifactExists(arts, "v1")
         THEN [status |-> 200, artifact |-> "v1", version |-> "v1"]
    ELSE [status |-> 404, artifact |-> "", version |-> r.version]

---------------------------------------------------------------------------
(* Responses.  status is the HTTP status; detail is the version an error   *)
(* names; artifact is the key of the file the model was loaded from and    *)
(* pred_idx the class index model.predict returned (neither is sent).      *)

NoResp ==
    [op |-> "none", status |-> 0, detail |-> "", target |-> "", model |-> "",
     artifact |-> "", prediction |-> "", accuracy |-> "", model_type |-> "",
     version |-> "", active_model |-> "", available_models |-> {},
     environment_override |-> FALSE, pred_idx |-> -1]

ErrorResp(o, st, d) == [NoResp EXCEPT !.op = o, !.status = st, !.detail = d]

\* registry.get("metrics", {}).get("accuracy", default)
MetricsAccuracy(doc, default) == Get(Get(doc, "metrics", EmptyDict), "accuracy", default)

\* model_info(): f1 is the file as load_registry() reads it (line 60), f2 as
\* get_active_model_version() reads it (line 61)
ModelInfoResp(e, f1, f2, arts) ==
    LET r == LoadRegistry(f1)
        v == GetActiveModelVersion(e, f2)
    IN  IF ~r.ok \/ ~v.ok THEN ErrorResp("model_info", 500, "")
        ELSE [NoResp EXCEPT
                !.op = "model_info", !.status = 200,
                !.active_model = Get(r.doc, "active_model", PklName(v.version)),
                !.version = v.version,
                !.model_type = Get(r.doc, "model_type", "unknown"),
                !.accuracy = MetricsAccuracy(r.doc, "unknown"),
                !.available_models = {x \in {"v1", "v2"} : ArtifactExists(arts, x)},
                !.environment_override = (e # <<>>)]

\* predict(): f1 is the file as load_active_model() reads it (line 81), f2 as
\* load_registry() reads it (line 87); idx is what model.predict returns
PredictResp(e, f1, f2, arts, idx) ==
    LET m == LoadActiveModel(e, f1, arts)
        r == LoadRegistry(f2)
    IN  IF m.status # 200 THEN ErrorResp("predict", m.status, m.version)
        ELSE IF ~r.ok THEN ErrorResp("predict", 500, "")
        ELSE [NoResp EXCEPT
                !.op = "predict", !.status = 200,
                !.model = m.version, !.artifact = m.artifact,
                !.prediction = SpeciesGet(idx), !.pred_idx = idx,
                !.accuracy = MetricsAccuracy(r.doc, "unknown"),
                !.model_type = Get(r.doc, "model_type", "unknown"),
                !.version = SemVer(m.version)]

\* predict_v1()
PredictV1Resp(f, arts, idx) ==
    LET r == LoadRegistry(f) IN
    IF ~ArtifactExists(arts, "v1") THEN ErrorResp("predict_v1", 404, "v1")
    ELSE IF ~r.ok THEN ErrorResp("predict_v1", 500, "")
    ELSE [NoResp EXCEPT
            !.op = "predict_v1", !.status = 200,
            !.model = "v1", !.artifact = "v1",
            !.prediction = SpeciesGet(idx), !.pred_idx = idx,
            !.accuracy = IF Get(r.doc, "version", "") = "v1"
                         THEN MetricsAccuracy(r.doc, "0.35") ELSE "0.35",
            !.model_type = "DummyClassifier",
            !.version = "1.0.0"]


\* a /predict/v2 that serves the v1 artifact when v2 is missing
PredictV2FallsBack(f, arts, idx) ==
    LET r == LoadRegistry(f)
        a == IF ArtifactExists(arts, "v2") THEN "v2" ELSE "v1"
    IN  IF ~ArtifactExists(arts, a) THEN ErrorResp("predict_v2", 404, "v2")
        ELSE IF ~r.ok THEN ErrorResp("predict_v2", 500, "")
        ELSE [NoResp EXCEPT
                !.op = "predict_v2", !.status = 200,
                !.model = a, !.artifact = a,
                !.prediction = SpeciesGet(idx), !.pred_idx = idx,
                !.accuracy = "0.95",
                !.model_type = "RandomForestClassifier",
                !.version = "2.0.0"]

\* predict_v2()
PredictV2Resp(f, arts, idx) ==
    LET r == LoadRegistry(f) IN
    IF ~ArtifactExists(arts, "v2") THEN ErrorResp("predict_v2", 404, "v2")
    ELSE IF ~r.ok THEN ErrorResp("predict_v2", 500, "")
    ELSE [NoResp EXCEPT
            !.op = "predict_v2", !.status = 200,
            !.model = "v2", !.artifact = "v2",
            !.prediction = SpeciesGet(idx), !.pred_idx = idx,
            !.accuracy = IF Get(r.doc, "version", "") = "v2"
                         THEN MetricsAccuracy(r.doc, "0.95") ELSE "0.95",
            !.model_type = "RandomForestClassifier",
            !.version = "2.0.0"]

---------------------------------------------------------------------------
(* switch_model                                                            *)

\* the classifier family and placeholder accuracy switch_model writes
ModelTypeOf(t) == IF t = "v1" THEN "DummyClassifier" ELSE "RandomForestClassifier"

DefaultAccuracy(t) == IF t = "v1" THEN "0.35" ELSE "0.95"


\* a switch that forgets registry["version"] = target_version
SwitchDocKeepsVersion(reg, t) ==
    LET r2 == Put(reg, "active_model", PklName(t))
        r3 == Put(r2, "model_type", ModelTypeOf(t))
    IN  IF "metrics" \notin DOMAIN r3
        THEN Put(r3, "metrics", [accuracy |-> DefaultAccuracy(t)])
        ELSE r3

\* the version compared before it is assigned, with == for !=
SwitchDocInverted(reg, t) ==
    LET r1 == Put(reg, "version", t)
        r2 == Put(r1, "active_model", PklName(t))
        r3 == Put(r2, "model_type", ModelTypeOf(t))
    IN  IF "metrics" \notin DOMAIN reg \/ t = Get(reg, "version", "")
        THEN Put(r3, "metrics", [accuracy |-> DefaultAccuracy(t)])
        ELSE r3

\* lines 169-181: the dict switch_model builds from the one it loaded.  The
\* version is assigned before it is compared with the target.
SwitchDoc(reg, t) ==
    LET r1 == Put(reg, "version", t)
        r2 == Put(r1, "active_model", PklName(t))
        r3 == Put(r2, "model_type", ModelTypeOf(t))
    IN  IF "metrics" \notin DOMAIN r3 \/ t # Get(r3, "version", "")
        THEN Put(r3, "metrics", [accuracy |-> DefaultAccuracy(t)])
        ELSE r3


\* switch_model without the check that the target's artifact exists
SwitchPrecheckNoExistsCheck(arts, t) ==
    IF t \notin {"v1", "v2"} THEN 400 ELSE 200

\* lines 160-165: the checks before the registry is touched
SwitchPrecheck(arts, t) ==
    IF t \notin {"v1", "v2"} THEN 400
    ELSE IF ~ArtifactExists(arts, t) THEN 404
    ELSE 200

\* lines 160-168: the status switch_model ends with
SwitchStatus(f, arts, t) ==
    IF SwitchPrecheck(arts, t) # 200 THEN SwitchPrecheck(arts, t)
    ELSE IF ~LoadRegistry(f).ok THEN 500
    ELSE 200

\* the file switch_model leaves
SwitchFile(f, arts, t) ==
    IF SwitchStatus(f, arts, t) = 200
    THEN JsonFile(SwitchDoc(LoadRegistry(f).doc, t))
    ELSE f

SwitchResp(f, arts, t) ==
    LET st == SwitchStatus(f, arts, t) IN
    IF st = 200
    THEN [NoResp EXCEPT !.op = "switch", !.status = 200, !.target = t,
                        !.active_model = SwitchFile(f, arts, t).doc["active_model"]]
    ELSE [ErrorResp("switch", st, IF st = 404 THEN t ELSE "") EXCEPT !.target = t]

---------------------------------------------------------------------------
(* train.py                                                                *)

\* update_registry(accuracy, version): registry.update(...) on the loaded dict
UpdateRegistryDoc(reg, v, acc) ==
    [k \in DOMAIN reg \cup {"active_model", "metrics", "version", "model_type"} |->
        CASE k = "active_model" -> PklName(v)
          [] k = "metrics"      -> [accuracy |-> acc]
          [] k = "version"      -> v
          [] k = "model_type"   -> ModelTypeOf(v)
          [] OTHER              -> reg[k]]

---------------------------------------------------------------------------
(* Initial state: a fresh deployment.  No registry document yet; any set   *)
(* of artifact files; the process started with any MODEL_VERSION.          *)

IdleWriter == [pc |-> "idle", target |-> "", doc |-> EmptyDict, status |-> 0]

IdleReader ==
    [pc |-> "idle", op |-> "", f1 |-> AbsentFile, f2 |-> AbsentFile,
     sawMalformed |-> FALSE]

Init ==
    /\ env \in EnvValues
    /\ artifacts \in SUBSET ArtifactKeys
    /\ file = AbsentFile
    /\ resp = NoResp
    /\ before = AbsentFile
    /\ writer = IdleWriter
    /\ reader = IdleReader
    /\ committed = AbsentFile
    /\ snaps = {}
    /\ switched = <<>>

conc == <<writer, reader, committed, snaps>>

---------------------------------------------------------------------------
(* Spec: one step per request                                              *)

\* GET /model-info
ModelInfo ==
    /\ resp' = ModelInfoResp(env, file, file, artifacts)
    /\ before' = file
    /\ UNCHANGED <<env, artifacts, file, conc, switched>>

\* GET /predict
Predict ==
    \E idx \in ClassIdx :
        /\ resp' = PredictResp(env, file, file, artifacts, idx)
        /\ before' = file
        /\ UNCHANGED <<env, artifacts, file, conc, switched>>

\* GET /predict/v1
PredictV1 ==
    \E idx \in ClassIdx :
        /\ resp' = PredictV1Resp(file, artifacts, idx)
        /\ before' = file
        /\ UNCHANGED <<env, artifacts, file, conc, switched>>

\* GET /predict/v2
PredictV2 ==
    \E idx \in ClassIdx :
        /\ resp' = PredictV2Resp(file, artifacts, idx)
        /\ before' = file
        /\ UNCHANGED <<env, artifacts, file, conc, switched>>

\* POST /switch-model?target_version=t
SwitchModel ==
    \E t \in Targets :
        /\ resp' = SwitchResp(file, artifacts, t)
        /\ file' = SwitchFile(file, artifacts, t)
        /\ before' = file
        /\ switched' = IF SwitchStatus(file, artifacts, t) = 200 THEN <<t>> ELSE switched
        /\ UNCHANGED <<env, artifacts, conc>>

\* python train.py <1|2>: save_model writes the artifact, then the registry
Train ==
    \E v \in {"v1", "v2"}, acc \in TrainAccuracies :
        /\ LoadRegistry(file).ok
        /\ artifacts' = artifacts \cup {v}
        /\ file' = JsonFile(UpdateRegistryDoc(LoadRegistry(file).doc, v, acc))
        /\ resp' = [NoResp EXCEPT !.op = "train", !.target = v]
        /\ before' = file
        /\ switched' = <<>>
        /\ UNCHANGED <<env, conc>>

\* an artifact file is deleted from the models directory (or a deployment
\* ships without it)
RemoveArtifact ==
    \E v \in artifacts :
        /\ artifacts' = artifacts \ {v}
        /\ resp' = [NoResp EXCEPT !.op = "remove", !.target = v]
        /\ before' = file
        /\ switched' = IF switched = <<v>> THEN <<>> ELSE switched
        /\ UNCHANGED <<env, file, conc>>

Next ==
    \/ ModelInfo
    \/ Predict
    \/ PredictV1
    \/ PredictV2
    \/ SwitchModel
    \/ Train
    \/ RemoveArtifact

Spec == Init /\ [][Next]_vars

---------------------------------------------------------------------------
(* SpecConc: a worker running switch_model and a worker running a          *)
(* read-only handler, each a process of its own (uvicorn --workers 2) on   *)
(* the same model_registry.json.  A step is the code between two accesses  *)
(* to the file.  open(..., "w") truncates the file; the document reaches   *)
(* it when the with block closes it.                                       *)

seq == <<before, switched>>

\* switch_model, lines 160-165
SwitchCheck ==
    /\ writer.pc = "idle"
    /\ \E t \in Targets :
        writer' = IF SwitchPrecheck(artifacts, t) = 200
                  THEN [pc |-> "load", target |-> t, doc |-> EmptyDict, status |-> 0]
                  ELSE [pc |-> "idle", target |-> t, doc |-> EmptyDict,
                        status |-> SwitchPrecheck(artifacts, t)]
    /\ UNCHANGED <<env, artifacts, file, resp, reader, committed, snaps, seq>>

\* switch_model, lines 168-181
SwitchLoad ==
    /\ writer.pc = "load"
    /\ writer' = IF LoadRegistry(file).ok
                 THEN [writer EXCEPT !.pc = "open",
                                     !.doc = SwitchDoc(LoadRegistry(file).doc, writer.target)]
                 ELSE [writer EXCEPT !.pc = "idle", !.status = 500]
    /\ UNCHANGED <<env, artifacts, file, resp, reader, committed, snaps, seq>>

\* switch_model, line 183: open("model_registry.json", "w")
SwitchOpen ==
    /\ writer.pc = "open"
    /\ file' = MalformedFile
    /\ writer' = [writer EXCEPT !.pc = "dump"]
    /\ UNCHANGED <<env, artifacts, resp, reader, committed, snaps, seq>>

\* switch_model, lines 184-190: json.dump and the close of the file
SwitchDump ==
    /\ writer.pc = "dump"
    /\ file' = JsonFile(writer.doc)
    /\ committed' = JsonFile(writer.doc)
    /\ snaps' = IF reader.pc # "idle" THEN snaps \cup {JsonFile(writer.doc)} ELSE snaps
    /\ writer' = [writer EXCEPT !.pc = "idle", !.status = 200]
    /\ UNCHANGED <<env, artifacts, resp, reader, seq>>

\* a GET /model-info or GET /predict request arrives
Request ==
    /\ reader.pc = "idle"
    /\ \E o \in {"model_info", "predict"} :
        reader' = [IdleReader EXCEPT !.pc = "first", !.op = o]
    /\ resp' = NoResp
    /\ snaps' = {committed}
    /\ UNCHANGED <<env, artifacts, file, writer, committed, seq>>

\* model_info, line 60: registry = load_registry()
ModelInfoLoad ==
    /\ reader.pc = "first" /\ reader.op = "model_info"
    /\ IF LoadRegistry(file).ok
       THEN /\ reader' = [reader EXCEPT !.pc = "second", !.f1 = file]
            /\ resp' = resp
       ELSE /\ reader' = [reader EXCEPT !.pc = "idle", !.f1 = file, !.sawMalformed = TRUE]
            /\ resp' = ModelInfoResp(env, file, file, artifacts)
    /\ UNCHANGED <<env, artifacts, file, writer, committed, snaps, seq>>

\* model_info, lines 61-76
ModelInfoResolve ==
    /\ reader.pc = "second" /\ reader.op = "model_info"
    /\ reader' = [reader EXCEPT !.pc = "idle", !.f2 = file,
                    !.sawMalformed = ~Truthy(env) /\ file.kind = "malformed"]
    /\ resp' = ModelInfoResp(env, reader.f1, file, artifacts)
    /\ UNCHANGED <<env, artifacts, file, writer, committed, snaps, seq>>

\* predict, line 81: model, version = load_active_model()
PredictLoad ==
    /\ reader.pc = "first" /\ reader.op = "predict"
    /\ IF LoadActiveModel(env, file, artifacts).status = 200
       THEN /\ reader' = [reader EXCEPT !.pc = "second", !.f1 = file]
            /\ resp' = resp
       ELSE /\ reader' = [reader EXCEPT !.pc = "idle", !.f1 = file,
                            !.sawMalformed = ~Truthy(env) /\ file.kind = "malformed"]
            /\ resp' = PredictResp(env, file, file, artifacts, 0)
    /\ UNCHANGED <<env, artifacts, file, writer, committed, snaps, seq>>

\* predict, lines 83-99
PredictAnnotate ==
    /\ reader.pc = "second" /\ reader.op = "predict"
    /\ \E idx \in ClassIdx :
        resp' = PredictResp(env, reader.f1, file, artifacts, idx)
    /\ reader' = [reader EXCEPT !.pc = "idle", !.f2 = file,
                    !.sawMalformed = (file.kind = "malformed")]
    /\ UNCHANGED <<env, artifacts, file, writer, committed, snaps, seq>>

NextConc ==
    \/ SwitchCheck
    \/ SwitchLoad
    \/ SwitchOpen
    \/ SwitchDump
    \/ Request
    \/ ModelInfoLoad
    \/ ModelInfoResolve
    \/ PredictLoad
    \/ PredictAnnotate

SpecConc == Init /\ [][NextConc]_vars

---------------------------------------------------------------------------
(* Properties of Spec                                                      *)

Labels == {"setosa", "versicolor", "virginica"}

\* the active version a complete registry document declares, if any
Declares(f, v) == f.kind = "json" /\ "version" \in DOMAIN f.doc /\ f.doc["version"] = v

DeclaresSome(f) == f.kind = "json" /\ "version" \in DOMAIN f.doc

\* the accuracy a registry document records
RecordedAccuracy(f) == f.doc["metrics"]["accuracy"]

C3_SwitchAccuracy ==
    (resp.op = "switch" /\ resp.status = 200)
        => /\ file.kind = "json"
           /\ file.doc["version"] = resp.target
           /\ file.doc["model_type"] =
                (IF resp.target = "v1" THEN "DummyClassifier" ELSE "RandomForestClassifier")
           /\ IF Declares(before, resp.target)
              THEN RecordedAccuracy(file) = RecordedAccuracy(before)
              ELSE RecordedAccuracy(file) = (IF resp.target = "v1" THEN "0.35" ELSE "0.95")

\* C4: a switch to a target outside {v1, v2} ends 400, a switch to a
\* target in the set without an artifact ends 404 naming it, and every
\* rejected switch leaves the registry file as it was (absent included).
C4_RejectedSwitchLeavesRegistry ==
    resp.op = "switch"
        => /\ resp.target \notin {"v1", "v2"} => resp.status = 400
           /\ (resp.target \in {"v1", "v2"} /\ resp.target \notin artifacts)
                => (resp.status = 404 /\ resp.detail = resp.target)
           /\ resp.status # 200 => file = before

C4_Witness ==
    /\ resp.op = "switch" /\ resp.status = 404
    /\ resp.target = "v2" /\ before.kind = "json" /\ file = before

\* C5: with no override, when the registry declares V # "v1", no artifact
\* is stored under V and one is stored under v1, /predict loads the v1
\* artifact and reports v1; when neither is stored it fails with 404
\* naming V.
C5_RegistryMissingFallsBackToV1 ==
    (resp.op = "predict" /\ env = <<>> /\ DeclaresSome(file)
     /\ file.doc["version"] # "v1" /\ file.doc["version"] \notin artifacts)
        => IF "v1" \in artifacts
           THEN resp.status = 200 /\ resp.artifact = "v1" /\ resp.model = "v1"
           ELSE resp.status = 404 /\ resp.detail = file.doc["version"]

C5_Witness ==
    /\ resp.op = "predict" /\ env = <<>> /\ Declares(file, "v2")
    /\ "v2" \notin artifacts /\ resp.status = 200 /\ resp.model = "v1"

\* C6 as stated: whenever MODEL_VERSION is present, the resolved version
\* (the version /model-info reports) is its value verbatim; otherwise it
\* is the version the registry declares, and "v1" without one.
C6_PresentOverrideWins ==
    (resp.op = "model_info" /\ resp.status = 200)
        => resp.version = (IF env # <<>> THEN env[1]
                           ELSE IF DeclaresSome(file) THEN file.doc["version"]
                           ELSE "v1")

\* C6 amended: a non-empty MODEL_VERSION is returned verbatim whatever the
\* registry holds; with MODEL_VERSION unset or empty the version the
\* registry declares is returned, and "v1" when the registry is absent or
\* declares none.  No artifact needs to exist for the result.
C6_NonEmptyOverrideWins ==
    (resp.op = "model_info" /\ resp.status = 200)
        => resp.version = (IF env # <<>> /\ env[1] # "" THEN env[1]
                           ELSE IF DeclaresSome(file) THEN file.doc["version"]
                           ELSE "v1")

C6_Witness ==
    /\ resp.op = "model_info" /\ resp.status = 200
    /\ env = <<"v3">> /\ "v3" \notin artifacts /\ Declares(file, "v2")
    /\ resp.version = "v3"

\* C8: right after a successful switch to a target, a second switch to the
\* same target succeeds too and leaves the very same registry file.
C8_SwitchIdempotent ==
    (resp.op = "switch" /\ resp.status = 200)
        => /\ SwitchStatus(file, artifacts, resp.target) = 200
           /\ SwitchFile(file, artifacts, resp.target) = file

C8_Witness ==
    /\ resp.op = "switch" /\ resp.status = 200 /\ resp.target = "v2"
    /\ Declares(before, "v1") /\ RecordedAccuracy(before) = "0.333"
    /\ file # before

\* C9: /predict/v1 and /predict/v2 answer 200 with model = that version,
\* from that version's own artifact, exactly when it is stored, whatever
\* MODEL_VERSION and the registry say; otherwise 404 naming that version.
C9_VersionEndpointsBypassResolver ==
    /\ resp.op = "predict_v1"
        => IF "v1" \in artifacts
           THEN resp.status = 200 /\ resp.model = "v1" /\ resp.artifact = "v1"
                /\ resp.prediction # ""
           ELSE resp.status = 404 /\ resp.detail = "v1"
    /\ resp.op = "predict_v2"
        => IF "v2" \in artifacts
           THEN resp.status = 200 /\ resp.model = "v2" /\ resp.artifact = "v2"
                /\ resp.prediction # ""
           ELSE resp.status = 404 /\ resp.detail = "v2"

C9_Witness ==
    /\ resp.op = "predict_v2" /\ resp.status = 200 /\ resp.model = "v2"
    /\ env = <<"v1">> /\ Declares(file, "v1")

\* C10: with the registry absent, no override and a v1 artifact, /predict
\* answers 200 for model v1 with accuracy "unknown"; a class index in
\* {0,1,2} gives its species label, any other index is returned verbatim.
C10_BootstrapPredict ==
    (resp.op = "predict" /\ file.kind = "absent" /\ env = <<>> /\ "v1" \in artifacts)
        => /\ resp.status = 200 /\ resp.model = "v1" /\ resp.artifact = "v1"
           /\ resp.accuracy = "unknown"
           /\ resp.pred_idx = 0 => resp.prediction = "setosa"
           /\ resp.pred_idx = 1 => resp.prediction = "versicolor"
           /\ resp.pred_idx = 2 => resp.prediction = "virginica"
           /\ resp.pred_idx \notin {0, 1, 2} => resp.prediction = ToString(resp.pred_idx)

C10_Witness ==
    /\ resp.op = "predict" /\ file.kind = "absent" /\ env = <<>> /\ "v1" \in artifacts
    /\ resp.status = 200 /\ resp.prediction \in Labels

\* C11 as stated: while the last write is a successful switch to t and
\* t's artifact is stored, the registry declares t; with MODEL_VERSION
\* unset /model-info reports version t and /predict serves and reports t;
\* with MODEL_VERSION set to O /model-info keeps reporting O.
C11_ReadYourSwitch ==
    switched # <<>>
        => /\ Declares(file, switched[1])
           /\ resp.op = "model_info"
                => /\ resp.status = 200
                   /\ resp.version = (IF env # <<>> THEN env[1] ELSE switched[1])
           /\ (resp.op = "predict" /\ env = <<>>)
                => /\ resp.status = 200
                   /\ resp.model = switched[1] /\ resp.artifact = switched[1]

\* C11 amended: as stated, with "override set" read as MODEL_VERSION set
\* to a non-empty value; with MODEL_VERSION unset or empty the switch is
\* read back.
C11_ReadYourSwitchNonEmptyOverride ==
    switched # <<>>
        => /\ Declares(file, switched[1])
           /\ resp.op = "model_info"
                => /\ resp.status = 200
                   /\ resp.version = (IF Truthy(env) THEN env[1] ELSE switched[1])
           /\ (resp.op = "predict" /\ ~Truthy(env))
                => /\ resp.status = 200
                   /\ resp.model = switched[1] /\ resp.artifact = switched[1]

C11_Witness ==
    /\ switched = <<"v2">> /\ env = <<>>
    /\ resp.op = "predict" /\ resp.status = 200 /\ resp.model = "v2"
    /\ "v1" \in artifacts

---------------------------------------------------------------------------
(* Properties of SpecConc                                                  *)

\* the reader's request has been answered
Answered == reader.pc = "idle" /\ resp.op \in {"model_info", "predict"}

\* what the handler reports when every read of the registry returns f
ReportFrom(o, f) ==
    IF o = "model_info"
    THEN {ModelInfoResp(env, f, f, artifacts)}
    ELSE {PredictResp(env, f, f, artifacts, idx) : idx \in ClassIdx}

\* a malformed document read as if the file were absent
AsAbsent(f) == IF f.kind = "malformed" THEN AbsentFile ELSE f

\* C2, for the requests whose every read of the file returned a complete
\* document: the answer to a /model-info or /predict request that overlaps
\* a switch is the answer computed from one registry document, the one
\* persisted when the request arrived or one a switch completed during
\* it.  No answer mixes fields of two documents.
C2_ReaderSeesOneRecord ==
    (Answered /\ ~reader.sawMalformed)
        => \E s \in snaps : resp \in ReportFrom(resp.op, s)

\* C7: a request that read a malformed registry document does not fail;
\* its answer is the one it would give had the file been absent at that
\* read (override if set, else v1; accuracy "unknown").
C7_MalformedTreatedAsAbsent ==
    (Answered /\ reader.sawMalformed)
        => /\ resp.status # 500
           /\ IF resp.op = "model_info"
              THEN resp = ModelInfoResp(env, AsAbsent(reader.f1), AsAbsent(reader.f2), artifacts)
              ELSE \E idx \in ClassIdx :
                     resp = PredictResp(env, AsAbsent(reader.f1), AsAbsent(reader.f2),
                                        artifacts, idx)

=============================================================================
